---- MODULE Spec2Model ----
(***************************************************************************)
(* ProxyGuard (src/proxyguard/proxyguard.py): a pool of HTTP proxies kept  *)
(* in Redis.  The store is the hash table "proxy:<id>" (fields success,    *)
(* failure, timestamp) and the list "proxy_list"; the instance holds the   *)
(* sequential cursor and the cooldown of the last get_proxy call.          *)
(*                                                                         *)
(* Python strings are sequences of tokens: the scheme prefixes "http://"   *)
(* and "https://", the blank " ", the separators ":" and "@", and atoms.   *)
(* Time is counted in ticks, TicksPerSec to the second, so that            *)
(* int(time.time()) is a truncation the model can see.                     *)
(***************************************************************************)
EXTENDS Integers, Sequences, FiniteSets, TLC

\* Bounds of the model.
MaxSteps == 5
TicksPerSec == 2
StartTime == 3

\* Constructor arguments (ProxyGuard.__init__), at their defaults.
amount == 250
fail_count == 3

Hosts == {"h1", "h2", "h3"}
Cooldowns == {0, 1}
Strategies == {"smart", "random", "sequential", "other"}

\* --------------------------------------------------------------- values
Str(s) == [t |-> "str", v |-> s]
NoneVal == [t |-> "None"]
IntVal == [t |-> "int"]
Dict(h, s) == [t |-> "dict", http |-> h, https |-> s]

Ok(v) == [exc |-> "none", val |-> v]
Raise(e, m) == [exc |-> e, msg |-> m]

\* str.startswith(prefix) for a one-token prefix.
StartsWith(s, tok) == Len(s) >= 1 /\ s[1] = tok

RECURSIVE LStrip(_)
LStrip(s) == IF s # <<>> /\ Head(s) = " " THEN LStrip(Tail(s)) ELSE s

RECURSIVE RStrip(_)
RStrip(s) == IF s # <<>> /\ s[Len(s)] = " " THEN RStrip(SubSeq(s, 1, Len(s) - 1)) ELSE s

\* str.strip()
Strip(s) == RStrip(LStrip(s))

\* f"{username}:{password}@{ip}:{port}"
ProxyString(result) ==
    <<result.username, ":", result.password, "@", result.proxy_address, ":", result.ports.http>>

\* f"proxy:{proxy}"
Key(proxy) == <<"proxy:">> \o proxy

\* One entry of the inventory service's "results".
Result(h, valid) ==
    [username |-> "u", password |-> "p", proxy_address |-> h,
     ports |-> [http |-> "80"], valid |-> valid]

P(h) == ProxyString(Result(h, TRUE))
Proxies == {P(h) : h \in Hosts}

\* ---------------------------------------------------------------- redis
NoFields == [f \in {} |-> 0]
NoKeys == [k \in {} |-> NoFields]

Exists(h, key) == key \in DOMAIN h

HGetAll(h, key) == IF key \in DOMAIN h THEN h[key] ELSE NoFields

\* None when the key or the field is missing.
HGet(h, key, field) ==
    IF key \in DOMAIN h /\ field \in DOMAIN h[key]
    THEN [t |-> "bytes", v |-> h[key][field]]
    ELSE NoneVal

\* redis.keys("proxy:*")
Keys(h) == {k \in DOMAIN h : StartsWith(k, "proxy:")}

HSetMapping(h, key, mapping) ==
    LET old == HGetAll(h, key)
        new == [f \in DOMAIN old \cup DOMAIN mapping |->
                   IF f \in DOMAIN mapping THEN mapping[f] ELSE old[f]]
    IN [k \in DOMAIN h \cup {key} |-> IF k = key THEN new ELSE h[k]]

HSet(h, key, field, value) == HSetMapping(h, key, [f \in {field} |-> value])

\* An increment that overwrites the field.
HIncrBySet(h, key, field, n) == HSet(h, key, field, n)

\* An increment that counts down.
HIncrByDown(h, key, field, n) ==
    LET old == HGetAll(h, key)
        cur == IF field \in DOMAIN old THEN old[field] ELSE 0
    IN HSet(h, key, field, cur - n)

HIncrBy(h, key, field, n) ==
    LET old == HGetAll(h, key)
        cur == IF field \in DOMAIN old THEN old[field] ELSE 0
    IN HSet(h, key, field, cur + n)

Delete(h, key) == [k \in DOMAIN h \ {key} |-> h[k]]

LPush(l, v) == <<v>> \o l

\* LREM key 0 value: every occurrence.
LRem(l, v) == SelectSeq(l, LAMBDA x : x # v)

\* ---------------------------------------------------------------- state
VARIABLES
    hashes,             \* redis: key -> hash (field -> integer)
    proxy_list,         \* redis: the list "proxy_list", head first
    sequential_index,   \* self._sequential_index
    cooldown,           \* self.cooldown, -1 before the first get_proxy
    api_key,            \* self.api_key, "None" or a key
    now,                \* time.time(), in ticks
    steps,              \* operations so far
    lastCall,           \* the last call: its name, argument and outcome
    removed,            \* the _remove_bad_proxy calls since the last refresh
    removedEver,        \* the _remove_bad_proxy calls so far
    lastSel,            \* proxy -> tick of its last selection since the last refresh, or -1
    cooldownsUsed,      \* the cooldown values get_proxy was called with
    seqElig,            \* the eligible sequence the current run of sequential calls saw
    seqRun,             \* what that run of sequential calls returned, oldest first
    threads,            \* concurrent callers: caller -> its call, position and locals
    base                \* the hashes when the concurrent callers started

history == <<removed, removedEver, lastSel, cooldownsUsed, seqElig, seqRun>>
conc == <<threads, base>>
vars == <<hashes, proxy_list, sequential_index, cooldown, api_key, now, steps, lastCall,
          removed, removedEver, lastSel, cooldownsUsed, seqElig, seqRun, threads, base>>

\* ------------------------------------------------------------ the pool
\* int(x or 0) of a value read from redis
IntOr0(x) == IF x.t = "None" THEN 0 ELSE x.v

\* stats.get(b"success", 0)
StatGet(stats, field) == IF field \in DOMAIN stats THEN stats[field] ELSE 0

FormatProxy(proxy) ==
    IF proxy.t # "str" \/ proxy.v = <<>>
    THEN Raise("ValueError", "Proxy must be a non-empty string")
    ELSE IF StartsWith(proxy.v, "http://") \/ StartsWith(proxy.v, "https://")
         THEN Ok(Dict(proxy, proxy))
         ELSE Ok(Dict(Str(<<"http://">> \o proxy.v), Str(<<"http://">> \o proxy.v)))

\* x or y
PyOr(x, y) == IF x.t = "None" \/ (x.t = "str" /\ x.v = <<>>) THEN y ELSE x

\* _extract_proxy_string returning the dict's entry with its scheme.
ExtractKeepsScheme(proxy_input) ==
    IF proxy_input.t = "dict"
    THEN LET proxy_url == PyOr(proxy_input.http, proxy_input.https)
         IN IF proxy_url.t = "None" \/ proxy_url.v = <<>>
            THEN Raise("ValueError", "Invalid proxy dict format")
            ELSE Ok(proxy_url.v)
    ELSE IF proxy_input.t = "str"
         THEN Ok(Strip(proxy_input.v))
         ELSE Raise("TypeError", "Proxy must be a string or dict with 'http'/'https' keys")

ExtractProxyString(proxy_input) ==
    IF proxy_input.t = "dict"
    THEN LET proxy_url == PyOr(proxy_input.http, proxy_input.https)
         IN IF proxy_url.t = "None" \/ proxy_url.v = <<>>
            THEN Raise("ValueError", "Invalid proxy dict format")
            ELSE IF StartsWith(proxy_url.v, "http://") \/ StartsWith(proxy_url.v, "https://")
                 THEN Ok(Tail(proxy_url.v))
                 ELSE Ok(proxy_url.v)
    ELSE IF proxy_input.t = "str"
         THEN Ok(Strip(proxy_input.v))
         ELSE Raise("TypeError", "Proxy must be a string or dict with 'http'/'https' keys")

ZeroCounters == [f \in {"success", "failure", "timestamp"} |-> 0]

\* The loop of _load_proxies over one page's results.
RECURSIVE LoadResults(_, _, _)
LoadResults(h, l, results) ==
    IF results = <<>>
    THEN [h |-> h, l |-> l]
    ELSE LET result == Head(results)
             proxy == ProxyString(result)
             key == Key(proxy)
         IN IF result.valid /\ ~Exists(h, key)
            THEN LoadResults(HSetMapping(h, key, ZeroCounters), LPush(l, proxy), Tail(results))
            ELSE LoadResults(h, l, Tail(results))

\* _load_proxies(page) on the response the inventory service gives for the page.
LoadProxies(h, l, key, resp) ==
    IF key = "None"
    THEN [exc |-> "Exception", h |-> h, l |-> l]
    ELSE IF resp.status # 200 \/ "results" \notin DOMAIN resp.data
         THEN [exc |-> "Exception", h |-> h, l |-> l]
         ELSE [exc |-> "none"] @@ LoadResults(h, l, resp.data.results)

\* The page tasks in the order they complete; the first one that raises ends
\* asyncio.gather and the tasks still waiting are cancelled.
RECURSIVE RunTasks(_, _, _, _, _)
RunTasks(h, l, key, order, responses) ==
    IF order = <<>>
    THEN [exc |-> "none", h |-> h, l |-> l]
    ELSE LET r == LoadProxies(h, l, key, responses[Head(order)])
         IN IF r.exc # "none" THEN r ELSE RunTasks(r.h, r.l, key, Tail(order), responses)

Max(a, b) == IF a >= b THEN a ELSE b

total_pages == Max(1, (amount + 249) \div 250)

\* The first part of _update_proxies_async: every "proxy:*" key and the list.
RECURSIVE DeleteAll(_, _)
DeleteAll(h, keys) ==
    IF keys = {} THEN h
    ELSE LET k == CHOOSE k \in keys : TRUE IN DeleteAll(Delete(h, k), keys \ {k})

\* The refresh deleting the list only.
ClearAllKeepsKeys(h) == h

ClearAll(h) == DeleteAll(h, Keys(h))

GetTimestamp(h, proxy) == HGet(h, Key(proxy), "timestamp")

SetTimestamp(h, proxy, t) == HSet(h, Key(proxy), "timestamp", t \div TicksPerSec)

CheckCooldown(h, proxy, cd, t) ==
    LET timestamp == IntOr0(GetTimestamp(h, proxy))
    IN t - timestamp * TicksPerSec >= cd * TicksPerSec

\* _get_all_proxies filtered by _check_cooldown
Eligible(h, l, cd, t) == SelectSeq(l, LAMBDA p : CheckCooldown(h, p, cd, t))

\* score(a) > score(b), with score = success / (success + failure + 0.1)
ScoreGreater(h, a, b) ==
    LET sa == StatGet(HGetAll(h, Key(a)), "success")
        fa == StatGet(HGetAll(h, Key(a)), "failure")
        sb == StatGet(HGetAll(h, Key(b)), "success")
        fb == StatGet(HGetAll(h, Key(b)), "failure")
    IN (10 * sa) * (10 * sb + 10 * fb + 1) > (10 * sb) * (10 * sa + 10 * fa + 1)

\* max keeping the last proxy of the largest score.
RECURSIVE MaxByScoreLast(_, _, _)
MaxByScoreLast(h, best, rest) ==
    IF rest = <<>> THEN best
    ELSE MaxByScoreLast(h, IF ScoreGreater(h, best, Head(rest)) THEN best ELSE Head(rest), Tail(rest))

\* max(proxies, key=score): the first proxy of the largest score.
RECURSIVE MaxByScore(_, _, _)
MaxByScore(h, best, rest) ==
    IF rest = <<>> THEN best
    ELSE MaxByScore(h, IF ScoreGreater(h, Head(rest), best) THEN Head(rest) ELSE best, Tail(rest))

SmartPick(h, proxies) ==
    IF proxies = <<>> THEN {NoneVal} ELSE {Str(MaxByScore(h, Head(proxies), Tail(proxies)))}

RandomPick(proxies) ==
    IF proxies = <<>> THEN {NoneVal} ELSE {Str(proxies[i]) : i \in 1..Len(proxies)}

SequentialPick(proxies, idx) ==
    IF Len(proxies) = 0 THEN {NoneVal} ELSE {Str(proxies[(idx % Len(proxies)) + 1])}

\* The cursor not advanced.
NextIndexStuck(idx, total) == idx % total

\* The cursor advanced without the modulo.
NextIndexNoWrap(idx, total) == idx + 1

NextIndex(idx, total) == (idx + 1) % total

\* _remove_bad_proxy without its LREM.
RemoveBadProxyKeepsEntry(h, l, proxy) == [h |-> Delete(h, Key(proxy)), l |-> l]

\* _remove_bad_proxy
RemoveBadProxy(h, l, proxy) == [h |-> Delete(h, Key(proxy)), l |-> LRem(l, proxy)]

\* The eviction test never true.
ThresholdNever(failure_count) == FALSE

\* The eviction test with > for >=.
ThresholdExceeded(failure_count) == failure_count > fail_count

ThresholdReached(failure_count) == failure_count >= fail_count

\* get_stats over the list and the hashes
RECURSIVE SumField(_, _, _)
SumField(h, l, field) ==
    IF l = <<>> THEN 0
    ELSE StatGet(HGetAll(h, Key(Head(l))), field) + SumField(h, Tail(l), field)

\* round(x * 100, 2) of the ratio num / den, in hundredths of a percent
RatePercent(num, den) == IF den > 0 THEN (2 * 10000 * num + den) \div (2 * den) ELSE 0

Stats(h, l) ==
    LET total_success == SumField(h, l, "success")
        total_failure == SumField(h, l, "failure")
        bad == Len(SelectSeq(l, LAMBDA p : StatGet(HGetAll(h, Key(p)), "failure") >= fail_count))
    IN [total_proxies |-> Len(l),
        good_proxies |-> Len(l) - bad,
        bad_proxies |-> bad,
        total_requests |-> total_success + total_failure,
        total_success |-> total_success,
        total_failure |-> total_failure,
        overall_success_rate |-> RatePercent(total_success, total_success + total_failure),
        proxy_details |->
            [p \in {l[i] : i \in 1..Len(l)} |->
                LET success == StatGet(HGetAll(h, Key(p)), "success")
                    failure == StatGet(HGetAll(h, Key(p)), "failure")
                IN [success |-> success, failure |-> failure, total |-> success + failure,
                    success_rate |-> RatePercent(success, success + failure)]]]

\* ------------------------------------------------------------- inputs
\* What a page of the inventory service may list.
Inventories ==
    {<<>>,
     <<Result("h1", TRUE)>>,
     <<Result("h1", TRUE), Result("h2", TRUE)>>,
     <<Result("h1", TRUE), Result("h2", TRUE), Result("h3", TRUE)>>,
     <<Result("h2", TRUE), Result("h1", FALSE), Result("h2", TRUE)>>}

Responses ==
    {[status |-> 200, data |-> [results |-> r]] : r \in Inventories}
        \cup {[status |-> 200, data |-> [detail |-> "x"]], [status |-> 500, data |-> [detail |-> "x"]]}

Pages == 1..total_pages

Orders == {o \in [Pages -> Pages] : \A i, j \in Pages : o[i] = o[j] => i = j}

RangeOf(q) == {q[i] : i \in 1..Len(q)}

\* The proxies the pages list as valid.
ValidIn(responses) ==
    UNION {IF "results" \in DOMAIN responses[pg].data
           THEN {ProxyString(r) : r \in {x \in RangeOf(responses[pg].data.results) : x.valid}}
           ELSE {} : pg \in Pages}

ReportInputs ==
    {Str(P("h1")), Str(P("h2")), Str(<<>>), Str(<<" ">>), Str(<<"garbage">>),
     FormatProxy(Str(P("h1"))).val, Dict(NoneVal, NoneVal), IntVal}

NeverSelected == [p \in Proxies |-> -1]

\* The callers of the concurrent specification; none is in a call here.
\* Each makes one call: c1 and c2 any call, c3 a report.
Callers == {"c1", "c2", "c3"}
AnyCallers == {"c1", "c2"}
Idle == [pc |-> "idle"]

Init ==
    /\ hashes = NoKeys
    /\ proxy_list = <<>>
    /\ sequential_index = 0
    /\ cooldown = -1
    /\ api_key \in {"None", "key"}
    /\ now = StartTime
    /\ steps = 0
    /\ lastCall = [op |-> "init"]
    /\ removed = {}
    /\ removedEver = {}
    /\ lastSel = NeverSelected
    /\ cooldownsUsed = {}
    /\ seqElig = <<>>
    /\ seqRun = <<>>
    /\ threads = [c \in Callers |-> Idle]
    /\ base = NoKeys

\* Time passes.
Tick ==
    /\ steps < MaxSteps
    /\ now' = now + 1
    /\ steps' = steps + 1
    /\ lastCall' = [op |-> "tick"]
    /\ UNCHANGED <<hashes, proxy_list, sequential_index, cooldown, api_key>>
    /\ UNCHANGED history
    /\ UNCHANGED conc

\* update_proxies(), the inventory service answering `responses` and the page
\* tasks completing in `order`.
UpdateProxies(responses, order) ==
    \E r \in {RunTasks(ClearAll(hashes), <<>>, api_key, order, responses)} :
       /\ steps < MaxSteps
       /\ hashes' = r.h
       /\ proxy_list' = r.l
       /\ steps' = steps + 1
       /\ lastCall' = [op |-> "update_proxies", valid |-> ValidIn(responses),
                       ret |-> IF r.exc = "none" THEN Ok(NoneVal) ELSE Raise(r.exc, "")]
       /\ removed' = {}
       /\ lastSel' = NeverSelected
       /\ UNCHANGED <<sequential_index, cooldown, api_key, now>>
       /\ UNCHANGED <<removedEver, cooldownsUsed, seqElig, seqRun>>
       /\ UNCHANGED conc

\* initialize_proxies(): calls _load_proxies() without its page argument.
InitializeProxies ==
    /\ steps < MaxSteps
    /\ steps' = steps + 1
    /\ lastCall' = [op |-> "initialize_proxies",
                    ret |-> IF Len(proxy_list) = 0
                            THEN Raise("TypeError", "missing argument: page")
                            ELSE Ok(NoneVal)]
    /\ UNCHANGED <<hashes, proxy_list, sequential_index, cooldown, api_key, now>>
    /\ UNCHANGED history
    /\ UNCHANGED conc

Picks(strategy, proxies, idx) ==
    CASE strategy = "smart" -> SmartPick(hashes, proxies)
      [] strategy = "random" -> RandomPick(proxies)
      [] strategy = "sequential" -> SequentialPick(proxies, idx)
      [] OTHER -> SmartPick(hashes, proxies)

\* The run of sequential calls over one eligible sequence, the last
\* Len(proxies) + 1 of them.
RunAfter(proxies, proxy) ==
    LET run == IF proxies = seqElig THEN Append(seqRun, proxy) ELSE <<proxy>>
    IN IF Len(run) > Len(proxies) + 1 THEN Tail(run) ELSE run

\* get_proxy(strategy, cooldown)
GetProxy(strategy, cd) ==
    \E proxies \in {Eligible(hashes, proxy_list, cd, now)} :
    \E pick \in Picks(strategy, proxies, sequential_index) :
        /\ steps < MaxSteps
        /\ cooldown' = cd
        /\ sequential_index' =
               IF strategy = "sequential" /\ Len(proxies) # 0
               THEN NextIndex(sequential_index, Len(proxies))
               ELSE sequential_index
        /\ hashes' = IF pick.t = "str" THEN SetTimestamp(hashes, pick.v, now) ELSE hashes
        /\ steps' = steps + 1
        /\ lastCall' = [op |-> "get_proxy",
                        via |-> IF strategy \in {"random", "sequential"} THEN strategy ELSE "smart",
                        pick |-> pick,
                        gap |-> IF pick.t = "str" /\ lastSel[pick.v] >= 0
                                THEN now - lastSel[pick.v] ELSE -1,
                        ret |-> FormatProxy(pick)]
        /\ lastSel' = IF pick.t = "str" THEN [lastSel EXCEPT ![pick.v] = now] ELSE lastSel
        /\ cooldownsUsed' = cooldownsUsed \cup {cd}
        /\ IF strategy = "sequential" /\ Len(proxies) # 0
           THEN seqElig' = proxies /\ seqRun' = RunAfter(proxies, pick.v)
           ELSE UNCHANGED <<seqElig, seqRun>>
        /\ UNCHANGED <<proxy_list, api_key, now, removed, removedEver>>
        /\ UNCHANGED conc

\* A call of _remove_bad_proxy: the proxy, and whether it was in the list.
Removal(proxy) == [proxy |-> proxy, member |-> proxy \in RangeOf(proxy_list)]

\* What report_proxy does to the store once the input is normalised.
Report(h, l, proxy, success) ==
    IF success
    THEN [h |-> HIncrBy(h, Key(proxy), "success", 1), l |-> l, removed |-> FALSE]
    ELSE LET h1 == HIncrBy(h, Key(proxy), "failure", 1)
         IN IF ThresholdReached(h1[Key(proxy)]["failure"])
            THEN RemoveBadProxy(h1, l, proxy) @@ [removed |-> TRUE]
            ELSE [h |-> h1, l |-> l, removed |-> FALSE]

\* report_proxy(proxy, success)
ReportProxy(proxy_input, success) ==
    \E ext \in {ExtractProxyString(proxy_input)} :
       /\ steps < MaxSteps
       /\ steps' = steps + 1
       /\ lastCall' = [op |-> "report_proxy",
                       ret |-> IF ext.exc = "none" THEN Ok(NoneVal) ELSE ext]
       /\ IF ext.exc # "none"
          THEN UNCHANGED <<hashes, proxy_list, removed, removedEver>>
          ELSE \E r \in {Report(hashes, proxy_list, ext.val, success)} :
                  /\ hashes' = r.h
                  /\ proxy_list' = r.l
                  /\ removed' = IF r.removed THEN removed \cup {Removal(ext.val)} ELSE removed
                  /\ removedEver' =
                         IF r.removed THEN removedEver \cup {Removal(ext.val)} ELSE removedEver
       /\ UNCHANGED <<sequential_index, cooldown, api_key, now>>
       /\ UNCHANGED <<lastSel, cooldownsUsed, seqElig, seqRun>>
       /\ UNCHANGED conc

\* get_stats()
GetStats ==
    /\ steps < MaxSteps
    /\ steps' = steps + 1
    /\ lastCall' = [op |-> "get_stats", ret |-> Ok(Stats(hashes, proxy_list))]
    /\ UNCHANGED <<hashes, proxy_list, sequential_index, cooldown, api_key, now>>
    /\ UNCHANGED history
    /\ UNCHANGED conc

Next ==
    \/ Tick
    \/ \E responses \in [Pages -> Responses], order \in Orders : UpdateProxies(responses, order)
    \/ InitializeProxies
    \/ \E strategy \in Strategies, cd \in Cooldowns : GetProxy(strategy, cd)
    \/ \E proxy_input \in ReportInputs, success \in BOOLEAN : ReportProxy(proxy_input, success)
    \/ GetStats

Spec == Init /\ [][Next]_vars

\* --------------------------------------------------- concurrent callers
\* Callers on threads that share one ProxyGuard and its redis.  A step is
\* one redis command or one access to an attribute of the instance; what a
\* caller holds between two steps is in its entry of `threads`.
ConcResponses ==
    {[status |-> 200, data |-> [results |-> <<Result("h1", TRUE), Result("h2", TRUE)>>]],
     [status |-> 200,
      data |-> [results |-> <<Result("h2", TRUE), Result("h1", FALSE), Result("h2", TRUE)>>]],
     [status |-> 500, data |-> [detail |-> "x"]]}

ConcReportInputs == {Str(P("h1")), Str(P("h2"))}

\* A pool of two proxies loaded by update_proxies; the one at the head may
\* have been selected in the current second and may be one failure short
\* of fail_count.
InitC ==
    /\ \E failure \in {0, fail_count - 1}, timestamp \in {0, StartTime \div TicksPerSec} :
          /\ hashes = HSetMapping(HSetMapping(NoKeys, Key(P("h1")), ZeroCounters), Key(P("h2")),
                                  [success |-> 0, failure |-> failure, timestamp |-> timestamp])
          /\ cooldown = IF timestamp = 0 THEN -1 ELSE 0
    /\ proxy_list = <<P("h2"), P("h1")>>
    /\ sequential_index = 0
    /\ api_key = "key"
    /\ now = StartTime
    /\ steps = 0
    /\ lastCall = [op |-> "init"]
    /\ removed = {}
    /\ removedEver = {}
    /\ lastSel = NeverSelected
    /\ cooldownsUsed = {}
    /\ seqElig = <<>>
    /\ seqRun = <<>>
    /\ threads = [c \in Callers |-> Idle]
    /\ base = hashes

Become(c, t) == threads' = [threads EXCEPT ![c] = t]

ConcFrame == UNCHANGED <<api_key, now, steps, lastCall, base>> /\ UNCHANGED history

\* A get_proxy call that has read the list and not yet written the timestamp.
Selecting(c) ==
    threads[c].pc \in {"hget", "compare", "hgetall", "seq_pick", "seq_load", "seq_store", "hset"}

\* report_proxy: the call and _extract_proxy_string
ReportBegin(c, proxy_input, success) ==
    /\ threads[c].pc = "idle"
    /\ ExtractProxyString(proxy_input).exc = "none"
    /\ Become(c, [op |-> "report_proxy", pc |-> "hincrby",
                  proxy |-> ExtractProxyString(proxy_input).val, success |-> success,
                  during |-> FALSE])
    /\ UNCHANGED <<hashes, proxy_list, sequential_index, cooldown>>
    /\ ConcFrame

ReportDone(t, evicted, during) ==
    [op |-> "report_proxy", pc |-> "done", proxy |-> t.proxy, success |-> t.success,
     evicted |-> evicted, during |-> during]

\* report_proxy: the HINCRBY and the test of its result
ReportHIncrBy(c) ==
    /\ threads[c].pc = "hincrby"
    /\ LET t == threads[c]
           field == IF t.success THEN "success" ELSE "failure"
           h1 == HIncrBy(hashes, Key(t.proxy), field, 1)
           failure_count == h1[Key(t.proxy)][field]
       IN /\ hashes' = h1
          /\ Become(c, IF ~t.success /\ ThresholdReached(failure_count)
                       THEN [t EXCEPT !.pc = "delete"]
                       ELSE ReportDone(t, FALSE, FALSE))
    /\ UNCHANGED <<proxy_list, sequential_index, cooldown>>
    /\ ConcFrame

\* _remove_bad_proxy: the DEL
ReportDelete(c) ==
    /\ threads[c].pc = "delete"
    /\ hashes' = Delete(hashes, Key(threads[c].proxy))
    /\ Become(c, [threads[c] EXCEPT !.pc = "lrem",
                                    !.during = \E d \in Callers \ {c} : Selecting(d)])
    /\ UNCHANGED <<proxy_list, sequential_index, cooldown>>
    /\ ConcFrame

\* _remove_bad_proxy: the LREM
ReportLRem(c) ==
    /\ threads[c].pc = "lrem"
    /\ proxy_list' = LRem(proxy_list, threads[c].proxy)
    /\ Become(c, ReportDone(threads[c], TRUE,
                            threads[c].during /\ \E d \in Callers \ {c} : Selecting(d)))
    /\ UNCHANGED <<hashes, sequential_index, cooldown>>
    /\ ConcFrame

\* get_proxy: the call and self.cooldown = cooldown
GetBegin(c, strategy, cd) ==
    /\ threads[c].pc = "idle"
    /\ c \in AnyCallers
    /\ cooldown' = cd
    /\ Become(c, [op |-> "get_proxy", pc |-> "lrange",
                  via |-> IF strategy \in {"random", "sequential"} THEN strategy ELSE "smart",
                  cd |-> cd, todo |-> <<>>, elig |-> <<>>, tss |-> <<>>, ts |-> 0,
                  stats |-> NoKeys, idx |-> 0, pick |-> <<>>])
    /\ UNCHANGED <<hashes, proxy_list, sequential_index>>
    /\ ConcFrame

\* What get_proxy leaves behind: the cooldown it was called with, its pick,
\* the timestamp it read when it checked the pick, and what it returned.
GetDone(t, pick, pickTs) ==
    [op |-> "get_proxy", pc |-> "done", cd |-> t.cd, pick |-> pick, pickTs |-> pickTs,
     ret |-> FormatProxy(pick)]

\* _get_all_proxies: the LRANGE
GetLRange(c) ==
    /\ threads[c].pc = "lrange"
    /\ Become(c, IF proxy_list = <<>>
                 THEN GetDone(threads[c], NoneVal, 0)
                 ELSE [threads[c] EXCEPT !.pc = "hget", !.todo = proxy_list])
    /\ UNCHANGED <<hashes, proxy_list, sequential_index, cooldown>>
    /\ ConcFrame

\* _check_cooldown: the HGET of the timestamp
GetHGet(c) ==
    /\ threads[c].pc = "hget"
    /\ Become(c, [threads[c] EXCEPT
                     !.pc = "compare",
                     !.ts = IntOr0(GetTimestamp(hashes, Head(threads[c].todo)))])
    /\ UNCHANGED <<hashes, proxy_list, sequential_index, cooldown>>
    /\ ConcFrame

\* _check_cooldown: the comparison with self.cooldown; after the last proxy,
\* the strategy goes on with the proxies that passed.
GetCompare(c) ==
    /\ threads[c].pc = "compare"
    /\ LET t == threads[c]
           passed == now - t.ts * TicksPerSec >= cooldown * TicksPerSec
           elig == IF passed THEN Append(t.elig, Head(t.todo)) ELSE t.elig
           tss == IF passed THEN Append(t.tss, t.ts) ELSE t.tss
           todo == Tail(t.todo)
           u == [t EXCEPT !.elig = elig, !.tss = tss, !.todo = todo]
       IN \E i \in (IF todo = <<>> /\ elig # <<>> /\ t.via = "random" THEN 1..Len(elig) ELSE {0}) :
             Become(c, IF todo # <<>> THEN [u EXCEPT !.pc = "hget"]
                       ELSE IF elig = <<>> THEN GetDone(t, NoneVal, 0)
                       ELSE IF t.via = "smart" THEN [u EXCEPT !.pc = "hgetall", !.todo = elig]
                       ELSE IF t.via = "random" THEN [u EXCEPT !.pc = "hset", !.pick = elig[i]]
                       ELSE [u EXCEPT !.pc = "seq_pick"])
    /\ UNCHANGED <<hashes, proxy_list, sequential_index, cooldown>>
    /\ ConcFrame

\* _get_smart_proxy: score, the HGETALL of one proxy; after the last, max
GetHGetAll(c) ==
    /\ threads[c].pc = "hgetall"
    /\ LET t == threads[c]
           proxy == Head(t.todo)
           stats == [k \in DOMAIN t.stats \cup {Key(proxy)} |->
                        IF k = Key(proxy) THEN HGetAll(hashes, k) ELSE t.stats[k]]
           u == [t EXCEPT !.stats = stats, !.todo = Tail(t.todo)]
       IN Become(c, IF Tail(t.todo) # <<>> THEN u
                    ELSE [u EXCEPT !.pc = "hset",
                                   !.pick = MaxByScore(stats, Head(t.elig), Tail(t.elig))])
    /\ UNCHANGED <<hashes, proxy_list, sequential_index, cooldown>>
    /\ ConcFrame

\* _get_sequential_proxy: proxies[self._sequential_index % total]
GetSeqPick(c) ==
    /\ threads[c].pc = "seq_pick"
    /\ \E pick \in SequentialPick(threads[c].elig, sequential_index) :
          Become(c, [threads[c] EXCEPT !.pc = "seq_load", !.pick = pick.v])
    /\ UNCHANGED <<hashes, proxy_list, sequential_index, cooldown>>
    /\ ConcFrame

\* _get_sequential_proxy: the read of self._sequential_index for its update
GetSeqLoad(c) ==
    /\ threads[c].pc = "seq_load"
    /\ Become(c, [threads[c] EXCEPT !.pc = "seq_store", !.idx = sequential_index])
    /\ UNCHANGED <<hashes, proxy_list, sequential_index, cooldown>>
    /\ ConcFrame

\* _get_sequential_proxy: the write of self._sequential_index
GetSeqStore(c) ==
    /\ threads[c].pc = "seq_store"
    /\ sequential_index' = NextIndex(threads[c].idx, Len(threads[c].elig))
    /\ Become(c, [threads[c] EXCEPT !.pc = "hset"])
    /\ UNCHANGED <<hashes, proxy_list, cooldown>>
    /\ ConcFrame

\* _set_timestamp: the HSET, and the return of get_proxy
GetHSet(c) ==
    /\ threads[c].pc = "hset"
    /\ LET t == threads[c]
           i == CHOOSE i \in 1..Len(t.elig) : t.elig[i] = t.pick
       IN /\ hashes' = SetTimestamp(hashes, t.pick, now)
          /\ Become(c, GetDone(t, Str(t.pick), t.tss[i]))
    /\ UNCHANGED <<proxy_list, sequential_index, cooldown>>
    /\ ConcFrame

UpdateDone(ret) == [op |-> "update_proxies", pc |-> "done", ret |-> ret]

\* The `continue` of _load_proxies: the results from the next valid one on.
RECURSIVE SkipInvalid(_)
SkipInvalid(results) ==
    IF results # <<>> /\ ~Head(results).valid THEN SkipInvalid(Tail(results)) ELSE results

\* The loop of _load_proxies going on with `results`.
UpdateLoop(t, results) ==
    IF SkipInvalid(results) = <<>> THEN UpdateDone(Ok(NoneVal))
    ELSE [t EXCEPT !.pc = "exists", !.results = SkipInvalid(results)]

\* update_proxies: the call and redis.keys("proxy:*")
UpdateKeys(c, resp) ==
    /\ threads[c].pc = "idle"
    /\ c \in AnyCallers
    /\ Become(c, [op |-> "update_proxies",
                  pc |-> IF Keys(hashes) = {} THEN "delete_list" ELSE "delete_key",
                  keys |-> Keys(hashes), resp |-> resp, results |-> <<>>])
    /\ UNCHANGED <<hashes, proxy_list, sequential_index, cooldown>>
    /\ ConcFrame

\* _update_proxies_async: the DEL of one key
UpdateDelete(c) ==
    /\ threads[c].pc = "delete_key"
    /\ \E key \in threads[c].keys :
          /\ hashes' = Delete(hashes, key)
          /\ Become(c, [threads[c] EXCEPT
                           !.keys = @ \ {key},
                           !.pc = IF threads[c].keys = {key} THEN "delete_list" ELSE "delete_key"])
    /\ UNCHANGED <<proxy_list, sequential_index, cooldown>>
    /\ ConcFrame

\* _update_proxies_async: the DEL of "proxy_list"
UpdateDeleteList(c) ==
    /\ threads[c].pc = "delete_list"
    /\ proxy_list' = <<>>
    /\ Become(c, [threads[c] EXCEPT !.pc = "fetch"])
    /\ UNCHANGED <<hashes, sequential_index, cooldown>>
    /\ ConcFrame

\* _load_proxies: the api_key test and the answer of the inventory service
UpdateFetch(c) ==
    /\ threads[c].pc = "fetch"
    /\ LET t == threads[c]
       IN Become(c, IF \/ api_key = "None"
                       \/ t.resp.status # 200
                       \/ "results" \notin DOMAIN t.resp.data
                    THEN UpdateDone(Raise("Exception", ""))
                    ELSE UpdateLoop(t, t.resp.data.results))
    /\ UNCHANGED <<hashes, proxy_list, sequential_index, cooldown>>
    /\ ConcFrame

\* _load_proxies: the EXISTS of the key of one valid result
UpdateExists(c) ==
    /\ threads[c].pc = "exists"
    /\ LET t == threads[c]
       IN Become(c, IF Exists(hashes, Key(ProxyString(Head(t.results))))
                    THEN UpdateLoop(t, Tail(t.results))
                    ELSE [t EXCEPT !.pc = "hset_zero"])
    /\ UNCHANGED <<hashes, proxy_list, sequential_index, cooldown>>
    /\ ConcFrame

\* _load_proxies: the HSET of the zeroed record
UpdateHSet(c) ==
    /\ threads[c].pc = "hset_zero"
    /\ hashes' = HSetMapping(hashes, Key(ProxyString(Head(threads[c].results))), ZeroCounters)
    /\ Become(c, [threads[c] EXCEPT !.pc = "lpush"])
    /\ UNCHANGED <<proxy_list, sequential_index, cooldown>>
    /\ ConcFrame

\* _load_proxies: the LPUSH
UpdateLPush(c) ==
    /\ threads[c].pc = "lpush"
    /\ proxy_list' = LPush(proxy_list, ProxyString(Head(threads[c].results)))
    /\ Become(c, UpdateLoop(threads[c], Tail(threads[c].results)))
    /\ UNCHANGED <<hashes, sequential_index, cooldown>>
    /\ ConcFrame

NextC ==
    \E c \in Callers :
        \/ \E proxy_input \in ConcReportInputs, success \in BOOLEAN :
              ReportBegin(c, proxy_input, success)
        \/ ReportHIncrBy(c)
        \/ ReportDelete(c)
        \/ ReportLRem(c)
        \/ \E strategy \in Strategies, cd \in Cooldowns : GetBegin(c, strategy, cd)
        \/ GetLRange(c)
        \/ GetHGet(c)
        \/ GetCompare(c)
        \/ GetHGetAll(c)
        \/ GetSeqPick(c)
        \/ GetSeqLoad(c)
        \/ GetSeqStore(c)
        \/ GetHSet(c)
        \/ \E resp \in ConcResponses : UpdateKeys(c, resp)
        \/ UpdateDelete(c)
        \/ UpdateDeleteList(c)
        \/ UpdateFetch(c)
        \/ UpdateExists(c)
        \/ UpdateHSet(c)
        \/ UpdateLPush(c)

SpecC == InitC /\ [][NextC]_vars

\* ------------------------------------------------------------ properties
ListSet == RangeOf(proxy_list)

\* Proxies whose failure count a report brought to fail_count (any proxy)
\* and proxies such a report took out of the list (Evicted), since the
\* last refresh and ever.
Banned == {x.proxy : x \in removed}
BannedEver == {x.proxy : x \in removedEver}
Evicted == {x.proxy : x \in {y \in removed : y.member}}
EvictedEver == {x.proxy : x \in {y \in removedEver : y.member}}

Failure(p) == StatGet(HGetAll(hashes, Key(p)), "failure")
Success(p) == StatGet(HGetAll(hashes, Key(p)), "success")

Returned(p) == lastCall.op = "get_proxy" /\ lastCall.pick = Str(p)
ReturnedSome == lastCall.op = "get_proxy" /\ lastCall.pick.t = "str"

\* C1: a counters record "proxy:<id>" exists if and only if <id> is in the
\* active list, in every reachable state.
C1_CountersIffMember == \A p \in Proxies : Key(p) \in DOMAIN hashes <=> p \in ListSet

\* C2 as stated: a proxy whose failure count a report_proxy call brought to
\* fail_count is never returned by a later get_proxy, and no returned proxy
\* has a failure count of fail_count or more.
C2_NeverReturnedAfterThreshold ==
    ReturnedSome =>
        /\ lastCall.pick.v \notin BannedEver
        /\ Failure(lastCall.pick.v) < fail_count

\* C2 amended: the same, for the get_proxy calls made before the next
\* update_proxies refresh.
C2_NotReturnedUntilRefresh ==
    ReturnedSome =>
        /\ lastCall.pick.v \notin Banned
        /\ Failure(lastCall.pick.v) < fail_count

\* get_proxy returned a proxy while another one was evicted.
C2_Witness == ReturnedSome /\ Evicted # {}

\* C3: with one proxy of a zeroed pool of three evicted by its third failure
\* report and no other report made, get_stats gives bad_proxies = 1 and
\* good_proxies = 2.
C3_EvictedCountedBad ==
    (/\ lastCall.op = "get_stats"
     /\ fail_count = 3
     /\ Cardinality(Evicted) = 1 /\ Banned = Evicted
     /\ Len(proxy_list) = 2
     /\ DOMAIN hashes = {Key(p) : p \in ListSet}
     /\ \A p \in ListSet : Success(p) = 0 /\ Failure(p) = 0)
        => lastCall.ret.val.bad_proxies = 1 /\ lastCall.ret.val.good_proxies = 2

\* C4 as stated: a proxy report_proxy evicted is never in the active list
\* again and never returned by get_proxy again.
C4_EvictionTerminal == \A p \in EvictedEver : p \notin ListSet /\ ~Returned(p)

\* C4 amended: a proxy report_proxy evicted stays out of the active list and
\* is not returned by get_proxy until the next update_proxies refresh.
C4_EvictedUntilRefresh == \A p \in Evicted : p \notin ListSet /\ ~Returned(p)

\* A report made for a proxy after its eviction: the proxy has a counters
\* record again and is still out of the list.
C4_Witness ==
    /\ lastCall.op = "report_proxy"
    /\ \E p \in Evicted : Key(p) \in DOMAIN hashes /\ p \notin ListSet

\* C5: when every get_proxy call used the same cooldown, two successive
\* selections of one proxy are at least that cooldown apart.
C5_CooldownIsMinimumInterval ==
    (ReturnedSome /\ lastCall.gap >= 0 /\ cooldownsUsed = {cooldown})
        => lastCall.gap >= cooldown * TicksPerSec

\* What get_proxy raises on an empty list.
EmptyPoolError == FormatProxy(CHOOSE pick \in SmartPick(NoKeys, <<>>) : TRUE)

\* C6: the error of get_proxy on a list that is not empty (every proxy
\* cooling down) differs from its error on an empty list.
C6_ErrorsDistinguishable ==
    (lastCall.op = "get_proxy" /\ lastCall.ret.exc # "none" /\ proxy_list # <<>>)
        => lastCall.ret # EmptyPoolError

\* user:pass@host:port
IsCanonical(s) ==
    /\ Len(s) = 7
    /\ s[2] = ":" /\ s[4] = "@" /\ s[6] = ":"
    /\ \A i \in {1, 3, 5, 7} : s[i] \notin {":", "@", " ", "http://", "https://"}

\* The inputs of report_proxy that name no proxy: strings that are not
\* identifiers, a dict without a usable entry, a value of another type.
Malformed ==
    {x \in ReportInputs :
        \/ x.t = "str" /\ ~IsCanonical(x.v)
        \/ x.t = "dict" /\ PyOr(x.http, x.https).t = "None"
        \/ x.t \notin {"str", "dict"}}

\* C7: report_proxy on a malformed input raises and leaves the hashes and
\* the list as they were.
C7_MalformedRejected ==
    [][\A x \in Malformed, success \in BOOLEAN :
          ReportProxy(x, success)
              => lastCall'.ret.exc # "none" /\ UNCHANGED <<hashes, proxy_list>>]_vars

\* C8: after an update_proxies that returned, the list holds exactly the
\* proxies the inventory lists as valid, each once, each with zeroed
\* counters, and no other counters record exists.
C8_RefreshReplaces ==
    (lastCall.op = "update_proxies" /\ lastCall.ret.exc = "none")
        => /\ ListSet = lastCall.valid
           /\ Len(proxy_list) = Cardinality(lastCall.valid)
           /\ DOMAIN hashes = {Key(p) : p \in lastCall.valid}
           /\ \A p \in lastCall.valid : hashes[Key(p)] = ZeroCounters

\* A refresh that returned, of two proxies or more, after an eviction.
C8_Witness ==
    /\ lastCall.op = "update_proxies" /\ lastCall.ret.exc = "none"
    /\ Cardinality(lastCall.valid) >= 2
    /\ EvictedEver # {}

\* Where a proxy stands in the eligible sequence of the current run.
Pos(p) == CHOOSE i \in 1..Len(seqElig) : seqElig[i] = p

\* C9: the sequential calls that saw one and the same eligible sequence, of
\* N members, return successive members of it in cyclic list order: each
\* member once in N calls, and the (N+1)-th call gives the first again.
C9_SequentialRoundRobin ==
    LET N == Len(seqElig)
    IN /\ \A i \in 1..Len(seqRun) : seqRun[i] \in RangeOf(seqElig)
       /\ \A i \in 1..(Len(seqRun) - 1) : Pos(seqRun[i + 1]) = (Pos(seqRun[i]) % N) + 1
       /\ \A i, j \in 1..Len(seqRun) : (i < j /\ j - i < N) => seqRun[i] # seqRun[j]
       /\ Len(seqRun) = N + 1 => seqRun[N + 1] = seqRun[1]

\* Four sequential calls over three eligible proxies.
C9_Witness == Len(seqElig) = 3 /\ Len(seqRun) = 4

\* The eligible count under the cooldown of the last get_proxy call.
EligibleCount == Len(Eligible(hashes, proxy_list, cooldown, now))

\* C10 as stated: whenever the eligible set is not empty, the cursor is in
\* [0, eligibleCount).
C10_CursorInRange ==
    (cooldown >= 0 /\ EligibleCount > 0)
        => 0 <= sequential_index /\ sequential_index < EligibleCount

\* C10 amended: the cursor is in [0, n), n the eligible count the last
\* sequential selection saw, and 0 before any sequential selection.
C10_CursorBelowLastTotal ==
    /\ 0 <= sequential_index
    /\ sequential_index < Max(1, Len(seqElig))

\* The eligible set has shrunk below the stored cursor.
C10_Witness ==
    /\ cooldown >= 0 /\ EligibleCount > 0
    /\ sequential_index >= EligibleCount
    /\ sequential_index < Len(seqElig)

\* The score of a proxy as a fraction: success / (success + failure + 0.1).
ScoreOf(p) == [num |-> 10 * Success(p), den |-> 10 * (Success(p) + Failure(p)) + 1]
ScoreLess(a, b) == ScoreOf(a).num * ScoreOf(b).den < ScoreOf(b).num * ScoreOf(a).den

\* C11: get_proxy(SMART) on a non-empty eligible sequence returns a member
\* of it that no eligible proxy outscores, and every eligible proxy before
\* it in list order has a strictly smaller score.
C11_SmartMaximalFirst ==
    [][\A cd \in Cooldowns :
          (lastCall'.op = "get_proxy" /\ GetProxy("smart", cd)) =>
              LET elig == Eligible(hashes, proxy_list, cd, now)
                  pick == lastCall'.pick
              IN elig # <<>> =>
                    /\ pick.t = "str"
                    /\ \E i \in 1..Len(elig) :
                          /\ elig[i] = pick.v
                          /\ \A j \in 1..Len(elig) : ~ScoreLess(pick.v, elig[j])
                          /\ \A j \in 1..(i - 1) : ScoreLess(elig[j], pick.v)]_vars

\* The smart strategy returned a proxy with successes that is not the head
\* of the list, and the proxy before it has the smaller score.
C11_Witness ==
    /\ lastCall.op = "get_proxy" /\ lastCall.via = "smart" /\ lastCall.pick.t = "str"
    /\ Len(proxy_list) >= 2
    /\ lastCall.pick.v # Head(proxy_list)
    /\ ScoreLess(Head(proxy_list), lastCall.pick.v)

\* The results of the pages in the order the page tasks process them.
RECURSIVE ResultsInOrder(_, _)
ResultsInOrder(responses, order) ==
    IF order = <<>> THEN <<>>
    ELSE (IF "results" \in DOMAIN responses[Head(order)].data
          THEN responses[Head(order)].data.results ELSE <<>>)
             \o ResultsInOrder(responses, Tail(order))

\* Where a proxy stands in a sequence that holds it.
IndexIn(q, x) == CHOOSE i \in 1..Len(q) : q[i] = x

\* C12: of two proxies an update_proxies call inserted, the one inserted
\* first comes first in the sequence _get_all_proxies reads.
C12_InsertionOrder ==
    [][\A responses \in [Pages -> Responses], order \in Orders :
          (/\ lastCall'.op = "update_proxies" /\ lastCall'.ret.exc = "none"
           /\ UpdateProxies(responses, order)) =>
              LET all == ResultsInOrder(responses, order)
                  first(i) == all[i].valid
                                 /\ \A k \in 1..(i - 1) :
                                        all[k].valid => ProxyString(all[k]) # ProxyString(all[i])
              IN \A i, j \in 1..Len(all) :
                    (i < j /\ first(i) /\ first(j)) =>
                        IndexIn(proxy_list', ProxyString(all[i]))
                            < IndexIn(proxy_list', ProxyString(all[j]))]_vars

\* No field of a record is negative.
NonNegative == \A k \in DOMAIN hashes : \A f \in DOMAIN hashes[k] : hashes[k][f] >= 0

\* The counts of the proxies that are members before and after a step do
\* not decrease in it.
CountsKept ==
    \A p \in Proxies :
        (p \in ListSet /\ p \in ListSet') =>
            Success(p)' >= Success(p) /\ Failure(p)' >= Failure(p)

\* C16 as stated: the counters are never negative, and the counts of a
\* proxy that stays a member never decrease from one state to the next.
C16_CountersNeverDecrease == NonNegative /\ [][NonNegative' /\ CountsKept]_vars

\* C16 amended: the same, for every step but update_proxies, which puts the
\* counts of the proxies it re-inserts back to zero.
C16_CountersGrowUntilRefresh ==
    NonNegative /\ [][NonNegative' /\ (lastCall'.op # "update_proxies" => CountsKept)]_vars

\* A report made for a member that has successes and failures.
C16_Witness ==
    /\ lastCall.op = "report_proxy"
    /\ \E p \in ListSet : Success(p) >= 1 /\ Failure(p) >= 1

\* What a report_proxy(x, success) step does to the member x names.
ReportEffect(x, success) ==
    LET p == ExtractProxyString(x).val
        reached == Failure(p) + 1 >= fail_count
    IN /\ p \notin ListSet' <=> (~success /\ reached)
       /\ success =>
              /\ Failure(p)' = Failure(p) /\ Success(p)' = Success(p) + 1
              /\ Key(p) \in DOMAIN hashes'
       /\ (~success /\ ~reached) =>
              /\ Key(p) \in DOMAIN hashes'
              /\ Failure(p)' = Failure(p) + 1 /\ Success(p)' = Success(p)
              /\ HGet(hashes', Key(p), "timestamp") = HGet(hashes, Key(p), "timestamp")
       /\ \A q \in ListSet \ {p} : q \in ListSet' /\ hashes'[Key(q)] = hashes[Key(q)]

\* C17: report_proxy for a member of the list removes it exactly when the
\* call is a failure report that brings its failure count to fail_count; a
\* success report leaves the failure count as it was, and a failure report
\* below fail_count leaves the member in the list with its record.
C17_RemovedExactlyAtThreshold ==
    [][\A x \in ReportInputs, success \in BOOLEAN :
          (/\ lastCall'.op = "report_proxy"
           /\ ExtractProxyString(x).exc = "none"
           /\ ExtractProxyString(x).val \in ListSet
           /\ ReportProxy(x, success)) => ReportEffect(x, success)]_vars

\* A failure report has removed a member while another member, with a
\* failure of its own, stays in the list.
C17_Witness ==
    /\ lastCall.op = "report_proxy"
    /\ Evicted # {}
    /\ \E q \in ListSet : Failure(q) >= 1

\* Canonical identifiers user:pass@host:port.
Identifiers ==
    {<<u, ":", pw, "@", h, ":", pt>> :
        u \in {"u", "v"}, pw \in {"p"}, h \in Hosts, pt \in {"80", "8080"}}

\* Both input forms of an identifier normalise to it.
NormalisesBack(p) ==
    /\ IsCanonical(p)
    /\ FormatProxy(Str(p)).exc = "none"
    /\ ExtractProxyString(FormatProxy(Str(p)).val) = Ok(p)
    /\ ExtractProxyString(Str(p)) = Ok(p)

\* C18: for every canonical identifier p, _extract_proxy_string gives p for
\* the dict _format_proxy(p) and for the string p, and in every reachable
\* state report_proxy with the dict and report_proxy with the string update
\* the same record and leave the same store.
C18_BothFormsSameRecord ==
    /\ \A p \in Identifiers : NormalisesBack(p)
    /\ \A p \in Proxies, success \in BOOLEAN :
          LET byDict == ExtractProxyString(FormatProxy(Str(p)).val)
              byStr == ExtractProxyString(Str(p))
          IN /\ byDict.exc = "none" /\ byStr.exc = "none"
             /\ Key(byDict.val) = Key(byStr.val)
             /\ Report(hashes, proxy_list, byDict.val, success)
                    = Report(hashes, proxy_list, byStr.val, success)

\* Two success reports, by string or by dict, counted on one member's record.
C18_Witness ==
    /\ lastCall.op = "report_proxy"
    /\ P("h1") \in ListSet
    /\ Success(P("h1")) = 2 /\ Failure(P("h1")) = 0

\* Cooldown values in seconds, up to one that exceeds every time reached.
AnyCooldown == 0..((StartTime + MaxSteps) \div TicksPerSec + 1)

\* The members get_proxy has not selected: timestamp 0, or none stored.
NeverUsed == {p \in ListSet : IntOr0(GetTimestamp(hashes, p)) = 0}

\* C19: a member that was never selected passes _check_cooldown for every
\* cooldown value, at every time.
C19_NeverUsedAlwaysEligible ==
    \A p \in NeverUsed, cd \in AnyCooldown : CheckCooldown(hashes, p, cd, now)

\* ------------------------------------------- properties, concurrent callers
Called(c, op) == threads[c].pc # "idle" /\ threads[c].op = op
Completed(c, op) == Called(c, op) /\ threads[c].pc = "done"
AllDone == \A c \in Callers : threads[c].pc \in {"idle", "done"}

\* The success reports and the failure reports made for a proxy.
SuccessReports(p) ==
    {c \in Callers : Called(c, "report_proxy") /\ threads[c].proxy = p /\ threads[c].success}
FailureReports(p) ==
    {c \in Callers : Called(c, "report_proxy") /\ threads[c].proxy = p /\ ~threads[c].success}

BaseCount(p, field) == StatGet(HGetAll(base, Key(p)), field)

\* C13: when the concurrent calls are reports only and all have returned,
\* a member for which the m failure reports leave the failure count below
\* fail_count has its success count grown by the k success reports and its
\* failure count by m, and is still a member.
C13_NoLostReports ==
    (AllDone /\ \A c \in Callers : threads[c].pc = "idle" \/ Called(c, "report_proxy")) =>
        \A p \in Proxies :
            (/\ Key(p) \in DOMAIN base
             /\ BaseCount(p, "failure") + Cardinality(FailureReports(p)) < fail_count) =>
                /\ Success(p) = BaseCount(p, "success") + Cardinality(SuccessReports(p))
                /\ Failure(p) = BaseCount(p, "failure") + Cardinality(FailureReports(p))
                /\ p \in ListSet

\* Three concurrent reports for one member have returned: one success and
\* two failures.
C13_Witness ==
    /\ AllDone
    /\ Cardinality(SuccessReports(P("h1"))) = 1
    /\ Cardinality(FailureReports(P("h1"))) = 2

\* C14: the proxy a get_proxy call made with cooldown c returns had, when
\* that call checked it, a last use c seconds or more before.
C14_OwnCooldownChecked ==
    \A c \in Callers :
        (Completed(c, "get_proxy") /\ threads[c].pick.t = "str") =>
            now - threads[c].pickTs * TicksPerSec >= threads[c].cd * TicksPerSec

\* C15: when a report_proxy call has evicted a proxy while a get_proxy call,
\* the only other call, was between its read of the list and its timestamp
\* write, then once both have returned get_proxy has returned a proxy or
\* its no-proxy error, and the evicted proxy has no list entry and no record.
C15_EvictedGoneAfterSelection ==
    \A r, g \in Callers :
        (/\ AllDone
         /\ Completed(r, "report_proxy") /\ threads[r].evicted /\ threads[r].during
         /\ Completed(g, "get_proxy")
         /\ \A d \in Callers \ {r, g} : threads[d].pc = "idle") =>
            /\ threads[g].ret.exc \in {"none", "ValueError"}
            /\ threads[r].proxy \notin ListSet
            /\ Key(threads[r].proxy) \notin DOMAIN hashes

\* How many times the list holds a proxy.
Occurrences(p) == Cardinality({i \in 1..Len(proxy_list) : proxy_list[i] = p})

\* C20: while one update_proxies call loads the inventory and the other
\* calls are reports (evictions among them), the list holds each proxy at
\* most once, in every state.
C20_AtMostOnce ==
    (/\ \A c \in Callers :
           threads[c].pc = "idle" \/ Called(c, "report_proxy") \/ Called(c, "update_proxies")
     /\ Cardinality({c \in Callers : Called(c, "update_proxies")}) <= 1) =>
        \A p \in Proxies : Occurrences(p) <= 1
====
